---- MODULE Spec2Model ----
(***************************************************************************)
(* lineup-substitution: a literal search-and-replace over a text buffer    *)
(* that re-indents the lines aligned on the parenthesis following each     *)
(* match.  The buffer is a flat sequence of characters (a GtkTextBuffer);  *)
(* an iterator is an offset 0..Len(buffer) into it.                        *)
(***************************************************************************)
EXTENDS Integers, Sequences, FiniteSets, TLC

VARIABLES
  search_text,          \* Sub.search_text
  replacement,          \* Sub.replacement
  file,                 \* content of Sub.file on disk
  buffer,               \* content of Sub.buffer
  pc,                   \* position of the run
  iter,                 \* do_substitution: iter
  match_start,          \* do_substitution: match_start
  match_end,            \* do_substitution: match_end (replace: the mark)
  parenthesis_column,   \* replace: parenthesis_column
  next_line,            \* replace: next_line
  hist                  \* history of the run, read only by the properties

vars == <<search_text, replacement, file, buffer, pc, iter, match_start,
          match_end, parenthesis_column, next_line, hist>>

-----------------------------------------------------------------------------
(* Characters *)

TAB == "\t"
NL == "\n"
SP == " "
LP == "("

TabWidth == 8

\* Bounds of the model.
MaxLines == 3
MaxLineLen == 24

MaxBufLen == MaxLines * MaxLineLen

Rep(c, n) == [i \in 1..n |-> c]

-----------------------------------------------------------------------------
(* GtkTextIter primitives over the flat buffer *)

is_end(buf, it) == it = Len(buf)

ends_line(buf, it) == it = Len(buf) \/ buf[it + 1] = NL

starts_line(buf, it) == it = 0 \/ buf[it] = NL

\* The start of the line of it: the nearest line start at or before it.
set_line_offset_0(buf, it) ==
  CHOOSE p \in 0..it :
    starts_line(buf, p) /\ \A q \in (p + 1)..it : ~starts_line(buf, q)

\* The end of the line of it: the nearest line end at or after it.
forward_to_line_end(buf, it) ==
  CHOOSE p \in it..Len(buf) :
    ends_line(buf, p) /\ \A q \in it..(p - 1) : ~ends_line(buf, q)

\* The iterator after gtk_text_iter_forward_line: the start of the next
\* line, or the end of the buffer when the iterator is on the last line.
forward_line(buf, it) ==
  LET e == forward_to_line_end(buf, it)
  IN  IF e = Len(buf) THEN Len(buf) ELSE e + 1

\* Its return value: whether the iterator moved to a dereferenceable place.
forward_line_moved(buf, it) == ~is_end(buf, forward_line(buf, it))

isspace(c) == c \in {SP, TAB, NL}

MatchesAt(buf, text, p) ==
  /\ p + Len(text) <= Len(buf)
  /\ SubSeq(buf, p + 1, p + Len(text)) = text

\* Start offset of the first occurrence of text in [from, limit], -1 if none.
forward_search(buf, from, text, limit) ==
  IF \E p \in from..(limit - Len(text)) : p < limit /\ MatchesAt(buf, text, p)
    THEN CHOOSE p \in from..(limit - Len(text)) :
           /\ p < limit
           /\ MatchesAt(buf, text, p)
           /\ \A q \in from..(p - 1) : ~MatchesAt(buf, text, q)
    ELSE -1

\* gtk_source_view_get_visual_column: column[p] is the column reached when
\* the scan from the line start stands at offset p.
get_visual_column(buf, it) ==
  LET start == set_line_offset_0(buf, it)
      column[position \in start..it] ==
        IF position = start THEN 0
        ELSE IF buf[position] = TAB
          THEN column[position - 1]
                 + (TabWidth - (column[position - 1] % TabWidth))
          ELSE column[position - 1] + 1
  IN  column[it]

-----------------------------------------------------------------------------
(* The functions of lineup-substitution.c *)

get_parenthesis_column(buf, it) ==
  LET limit == IF ends_line(buf, it) THEN it ELSE forward_to_line_end(buf, it)
      p == forward_search(buf, it, <<LP>>, limit)
  IN  IF p # -1 THEN get_visual_column(buf, p + 1) ELSE -1

\* The loop goes on while the iterator is on a whitespace character of the
\* line: it stops at the first offset where that fails.
text_start_loop_goes_on(buf, p) ==
  ~is_end(buf, p) /\ ~ends_line(buf, p) /\ isspace(buf[p + 1])

forward_iter_to_text_start(buf, it) ==
  CHOOSE p \in it..Len(buf) :
    /\ ~text_start_loop_goes_on(buf, p)
    /\ \A q \in it..(p - 1) : text_start_loop_goes_on(buf, q)

get_text_start_column(buf, start_iter) ==
  LET it == forward_iter_to_text_start(buf, start_iter)
  IN  IF is_end(buf, it) \/ ends_line(buf, it)
        THEN -1
        ELSE get_visual_column(buf, it)

\* The loop goes on over the characters of the line that are whitespace
\* other than a tab; it returns TRUE exactly when it stops on a tab.
tab_loop_goes_on(buf, p) ==
  ~is_end(buf, p) /\ ~ends_line(buf, p) /\ buf[p + 1] # TAB /\ isspace(buf[p + 1])

indentation_contains_tab(buf, line_iter) ==
  LET start == set_line_offset_0(buf, line_iter)
      stop == CHOOSE p \in start..Len(buf) :
                /\ ~tab_loop_goes_on(buf, p)
                /\ \A q \in start..(p - 1) : tab_loop_goes_on(buf, q)
  IN  ~is_end(buf, stop) /\ ~ends_line(buf, stop) /\ buf[stop + 1] = TAB

\* Variant: the two lengths swapped.
new_length_swapped(buf, it, s, r) ==
  get_text_start_column(buf, it) + Len(s) - Len(r)

new_length(buf, it, s, r) == get_text_start_column(buf, it) - Len(s) + Len(r)

\* Variant: spaces whatever the line used.
indentation_spaces_only(tabs, n) == Rep(SP, n)

indentation(tabs, n) ==
  IF tabs
    THEN Rep(TAB, n \div 8) \o Rep(SP, n % 8)
    ELSE Rep(SP, n)

\* The buffer after adjust_alignment on the line starting at it.
adjust_alignment(buf, it, s, r) ==
  LET start_text_iter == forward_iter_to_text_start(buf, it)
      tabs == indentation_contains_tab(buf, it)
  IN  SubSeq(buf, 1, it)
        \o indentation(tabs, new_length(buf, it, s, r))
        \o SubSeq(buf, start_text_iter + 1, Len(buf))

\* The buffer after gtk_source_search_context_replace.
search_context_replace(buf, ms, me, r) ==
  SubSeq(buf, 1, ms) \o r \o SubSeq(buf, me + 1, Len(buf))

\* Variant: a mark with left gravity stays before the inserted text.
mark_left_gravity(ms, r) == ms

\* Where the mark created at match_end (right gravity) is after the replace.
mark_after_replace(ms, r) == ms + Len(r)

\* Variant: every line with text counts as a continuation line.
is_aligned_any(text_start_column, paren_column) == text_start_column # -1

\* Variant: a line indented to the parenthesis or beyond counts.
is_aligned_or_beyond(text_start_column, paren_column) ==
  text_start_column >= paren_column

\* The comparison deciding whether a line is a continuation line.
is_aligned(text_start_column, paren_column) == text_start_column = paren_column

\* Variant: the continuation loop starts from the start of the buffer.
first_next_line_buffer_start(me) == 0

\* The first iterator of the continuation loop.
first_next_line(me) == me

\* Variant: the scan resumes at the start of the replaced match.
next_iter_match_start(ms, me) == ms

\* Where do_substitution resumes the scan after replace returned.
next_iter(ms, me) == me

-----------------------------------------------------------------------------
(* Line view of a buffer, used by the histories and the properties *)

RECURSIVE SplitLines(_)
SplitLines(buf) ==
  LET S == {i \in 1..Len(buf) : buf[i] = NL}
  IN  IF S = {} THEN <<buf>>
      ELSE LET i == CHOOSE j \in S : \A k \in S : j <= k
           IN  <<SubSeq(buf, 1, i - 1)>> \o SplitLines(SubSeq(buf, i + 1, Len(buf)))

\* 1-based index of the line holding offset it.
LineOf(buf, it) == 1 + Cardinality({i \in 1..it : buf[i] = NL})

\* Number of '(' of the line of it that lie before offset it.
ParenOrdinal(buf, it) ==
  Cardinality({i \in (set_line_offset_0(buf, it) + 1)..it : buf[i] = LP})

-----------------------------------------------------------------------------
(* Inputs *)

F == "f"
G == "g"
X == "x"

Lines ==
  { <<F, F, F, LP, X, LP>>,
    <<F, TAB, LP, X>>,
    Rep(SP, 4) \o <<X>>,
    Rep(SP, 4) \o <<F, LP, X>>,
    Rep(SP, 6) \o <<X>>,
    <<TAB, SP, X>>,
    Rep(SP, 9) \o <<X>>,
    Rep(SP, 4),
    <<>> }

Pairs ==
  { <<(<<F>>), (<<F>>)>>,
    <<(<<F>>), (<<G, G>>)>>,
    <<(<<F>>), (<<F, F>>)>>,
    <<(<<F, F>>), (<<F>>)>>,
    <<(<<F>>), (<<>>)>>,
    <<(<<SP>>), (<<SP, SP>>)>> }

\* The lines of the inputs of the runs whose termination is studied.
LoopLines ==
  { <<F, F, F, LP, X, LP>>,
    Rep(SP, 4) \o <<F, LP, X>>,
    Rep(SP, 6) \o <<X>> }

\* Inputs whose search text spans a line break.
BreakLines == { <<F>>, <<LP>>, <<SP, X>> }

BreakPairs == { <<(<<F, NL>>), (<<>>)>> }

RECURSIVE Join(_)
Join(ls) ==
  IF Len(ls) = 1 THEN ls[1] ELSE ls[1] \o <<NL>> \o Join(Tail(ls))

Buffers(lineSet, n) ==
  { Join(ls) : ls \in UNION { [1..k -> lineSet] : k \in 1..n } }

NoHist(input) ==
  [ input |-> input, pre |-> <<>>, pm_start |-> 0, pm_end |-> 0,
    prev |-> <<>>, last_op |-> "none", matches |-> 0,
    anchor_line |-> 0, anchor_paren |-> 0,
    replaced |-> {}, realigned |-> {}, blocks |-> {} ]

-----------------------------------------------------------------------------
(* The run *)

\* The state after sub_new: the arguments are stored, the buffer is empty.
Constructed(lineSet) ==
  /\ \/ /\ \E pr \in Pairs : search_text = pr[1] /\ replacement = pr[2]
        /\ file \in Buffers(lineSet, MaxLines)
     \/ /\ \E pr \in BreakPairs : search_text = pr[1] /\ replacement = pr[2]
        /\ file \in Buffers(BreakLines, MaxLines + 1)
  /\ buffer = <<>>
  /\ pc = "LOADING"
  /\ iter = 0
  /\ match_start = 0
  /\ match_end = 0
  /\ parenthesis_column = -1
  /\ next_line = 0
  /\ hist = NoHist(file)

Init == Constructed(Lines)

LoopInit == Constructed(LoopLines)

\* load_cb: the file is loaded, do_substitution starts at the buffer start.
LoadCb ==
  /\ pc = "LOADING"
  /\ buffer' = file
  /\ iter' = 0
  /\ pc' = "SCANNING"
  /\ UNCHANGED <<search_text, replacement, file, match_start, match_end,
                 parenthesis_column, next_line, hist>>

\* do_substitution: gtk_source_search_context_forward finds a match.
ScanFound ==
  /\ pc = "SCANNING"
  /\ LET p == forward_search(buffer, iter, search_text, Len(buffer))
     IN  /\ p # -1
         /\ match_start' = p
         /\ match_end' = p + Len(search_text)
  /\ pc' = "REPLACING"
  /\ UNCHANGED <<search_text, replacement, file, buffer, iter,
                 parenthesis_column, next_line, hist>>

\* do_substitution: no further match; load_cb goes on to save_file.
ScanDone ==
  /\ pc = "SCANNING"
  /\ forward_search(buffer, iter, search_text, Len(buffer)) = -1
  /\ pc' = "DONE"
  /\ UNCHANGED <<search_text, replacement, file, buffer, iter, match_start,
                 match_end, parenthesis_column, next_line, hist>>

\* replace, up to the continuation loop.
Replace ==
  /\ pc = "REPLACING"
  /\ Len(buffer) - Len(search_text) + Len(replacement) <= MaxBufLen
  /\ parenthesis_column' = get_parenthesis_column(buffer, match_end)
  /\ buffer' = search_context_replace(buffer, match_start, match_end, replacement)
  /\ match_end' = mark_after_replace(match_start, replacement)
  /\ next_line' = first_next_line(mark_after_replace(match_start, replacement))
  /\ pc' = "REALIGNING"
  /\ hist' = [hist EXCEPT
       !.pre = buffer,
       !.pm_start = match_start,
       !.pm_end = match_end,
       !.prev = buffer,
       !.last_op = "replace",
       !.matches = IF @ < 2 THEN @ + 1 ELSE @,
       !.anchor_line = LineOf(buffer, match_end),
       !.anchor_paren =
         ParenOrdinal(buffer,
                      forward_search(buffer, match_end, <<LP>>, Len(buffer)) + 1),
       !.replaced = @ \cup {LineOf(buffer, match_start)}]
  /\ UNCHANGED <<search_text, replacement, file, iter, match_start>>

\* replace: one turn of the continuation loop that realigns a line.
AdjustLine ==
  /\ pc = "REALIGNING"
  /\ parenthesis_column # -1
  /\ forward_line_moved(buffer, next_line)
  /\ LET nl == forward_line(buffer, next_line)
     IN  /\ is_aligned(get_text_start_column(buffer, nl), parenthesis_column)
         /\ new_length(buffer, nl, search_text, replacement) >= 0
         /\ buffer' = adjust_alignment(buffer, nl, search_text, replacement)
         /\ next_line' = nl
         /\ hist' = [hist EXCEPT
              !.prev = buffer,
              !.last_op = "adjust",
              !.realigned = @ \cup {LineOf(buffer, nl)},
              !.blocks = @ \cup {<<hist.anchor_line, hist.anchor_paren,
                                   LineOf(buffer, nl)>>}]
  /\ UNCHANGED <<search_text, replacement, file, pc, iter, match_start,
                 match_end, parenthesis_column>>

\* Variant: the failing assertion path writes the buffer to the file.
AssertFailSaving ==
  /\ pc = "REALIGNING"
  /\ parenthesis_column # -1
  /\ forward_line_moved(buffer, next_line)
  /\ LET nl == forward_line(buffer, next_line)
     IN  /\ is_aligned(get_text_start_column(buffer, nl), parenthesis_column)
         /\ new_length(buffer, nl, search_text, replacement) < 0
         /\ next_line' = nl
  /\ pc' = "ABORTED"
  /\ file' = buffer
  /\ hist' = [hist EXCEPT !.last_op = "abort"]
  /\ UNCHANGED <<search_text, replacement, buffer, iter, match_start,
                 match_end, parenthesis_column>>

\* adjust_alignment: g_assert_cmpint (new_length, >=, 0) fails.
AssertFail ==
  /\ pc = "REALIGNING"
  /\ parenthesis_column # -1
  /\ forward_line_moved(buffer, next_line)
  /\ LET nl == forward_line(buffer, next_line)
     IN  /\ is_aligned(get_text_start_column(buffer, nl), parenthesis_column)
         /\ new_length(buffer, nl, search_text, replacement) < 0
         /\ next_line' = nl
  /\ pc' = "ABORTED"
  /\ hist' = [hist EXCEPT !.last_op = "abort"]
  /\ UNCHANGED <<search_text, replacement, file, buffer, iter, match_start,
                 match_end, parenthesis_column>>

\* replace returns: the loop is skipped or left; do_substitution moves iter.
EndReplace ==
  /\ pc = "REALIGNING"
  /\ \/ parenthesis_column = -1
     \/ ~forward_line_moved(buffer, next_line)
     \/ ~is_aligned(get_text_start_column(buffer, forward_line(buffer, next_line)),
                    parenthesis_column)
  /\ iter' = next_iter(match_start, match_end)
  /\ pc' = "SCANNING"
  /\ hist' = [hist EXCEPT !.last_op = "end"]
  /\ UNCHANGED <<search_text, replacement, file, buffer, match_start,
                 match_end, parenthesis_column, next_line>>

\* save_cb: the buffer has been written to the file.
SaveCb ==
  /\ pc = "DONE"
  /\ file' = buffer
  /\ pc' = "SAVED"
  /\ UNCHANGED <<search_text, replacement, buffer, iter, match_start,
                 match_end, parenthesis_column, next_line, hist>>

Next ==
  \/ LoadCb
  \/ ScanFound
  \/ ScanDone
  \/ Replace
  \/ AdjustLine
  \/ AssertFail
  \/ EndReplace
  \/ SaveCb

Spec == Init /\ [][Next]_vars

\* The run is one synchronous pass driven by the main loop: it never stalls.
FairSpec == LoopInit /\ [][Next]_vars /\ WF_vars(Next)

-----------------------------------------------------------------------------
(* Lines, columns and indentation as the specification states them *)

IsBlankChar(c) == c = SP \/ c = TAB

\* Visual column reached after the first k characters of a line.
RECURSIVE ColAfter(_, _)
ColAfter(line, k) ==
  IF k = 0 THEN 0
  ELSE LET c == ColAfter(line, k - 1)
       IN  IF line[k] = TAB THEN ((c \div 8) + 1) * 8 ELSE c + 1

\* Length of the leading whitespace run of a line.
IndentLen(line) ==
  LET S == {i \in 1..Len(line) : ~IsBlankChar(line[i])}
  IN  IF S = {} THEN Len(line) ELSE (CHOOSE i \in S : \A j \in S : i <= j) - 1

\* Visual column of the first non-whitespace character, -1 on a blank line.
StartCol(line) ==
  IF IndentLen(line) = Len(line) THEN -1 ELSE ColAfter(line, IndentLen(line))

Strip(line) == SubSeq(line, IndentLen(line) + 1, Len(line))

IndentHasTab(line) == \E i \in 1..IndentLen(line) : line[i] = TAB

Chars(text) == {text[i] : i \in 1..Len(text)}

SingleLineArgs == NL \notin Chars(search_text) /\ NL \notin Chars(replacement)

PlainArgs ==
  /\ Chars(search_text) \cap {SP, TAB, NL, LP} = {}
  /\ Chars(replacement) \cap {SP, TAB, NL, LP} = {}

Delta == Len(replacement) - Len(search_text)

\* Offset at which line n of a list of lines starts in the joined buffer.
RECURSIVE LineOffset(_, _)
LineOffset(lines, n) ==
  IF n = 1 THEN 0 ELSE LineOffset(lines, n - 1) + Len(lines[n - 1]) + 1

\* The match just processed, seen in the buffer as it was before the replace.
PreLines == SplitLines(hist.pre)
PostLines == SplitLines(buffer)
MatchLine == LineOf(hist.pre, hist.pm_end)
MatchEndInLine == hist.pm_end - LineOffset(PreLines, MatchLine)

\* Index in the line of the first '(' after index from, 0 if none.
FirstParenAfter(line, from) ==
  LET S == {i \in (from + 1)..Len(line) : line[i] = LP}
  IN  IF S = {} THEN 0 ELSE CHOOSE i \in S : \A j \in S : i <= j

AnchorIdx == FirstParenAfter(PreLines[MatchLine], MatchEndInLine)
AnchorCol == ColAfter(PreLines[MatchLine], AnchorIdx)

\* Length of the maximal run of lines directly below line l aligned on col.
RunLen(lines, l, col) ==
  LET S == {k \in 0..(Len(lines) - l) :
              \A i \in 1..k : StartCol(lines[l + i]) = col}
  IN  CHOOSE k \in S : \A j \in S : j <= k

BlockLen == IF AnchorIdx = 0 THEN 0 ELSE RunLen(PreLines, MatchLine, AnchorCol)

MatchProcessed == pc = "SCANNING" /\ hist.last_op = "end"

-----------------------------------------------------------------------------
(* C1: after a match followed on its line by a '(' is processed, every line *)
(* of the maximal run of lines directly below the match line that start in *)
(* the column just right of that '(' starts at its old column plus         *)
(* length(replacement) - length(search_text).                              *)
BlockShiftedByDelta ==
  (SingleLineArgs /\ MatchProcessed /\ AnchorIdx # 0) =>
    /\ Len(PostLines) = Len(PreLines)
    /\ \A i \in 1..BlockLen :
         StartCol(PostLines[MatchLine + i]) =
           StartCol(PreLines[MatchLine + i]) + Delta

BlockShiftedWitness ==
  /\ SingleLineArgs
  /\ MatchProcessed
  /\ AnchorIdx # 0
  /\ BlockLen = 2
  /\ Delta = 1
  /\ StartCol(PostLines[MatchLine + 2]) = AnchorCol + 1

-----------------------------------------------------------------------------
(* C5: processing a match changes no line other than the match line and    *)
(* the block of aligned lines directly below it: with no '(' after the     *)
(* match every other line is untouched, and the first blank or non-aligned *)
(* line ends the block, so that line and every line after it are untouched *)
(* even when a later one starts in the anchor column.                      *)
OtherLinesUntouched ==
  (SingleLineArgs /\ MatchProcessed) =>
    /\ Len(PostLines) = Len(PreLines)
    /\ \A i \in 1..Len(PreLines) :
         (i < MatchLine \/ i > MatchLine + BlockLen) => PostLines[i] = PreLines[i]

GapEndsBlockWitness ==
  /\ SingleLineArgs
  /\ MatchProcessed
  /\ Delta # 0
  /\ AnchorIdx # 0
  /\ Len(PreLines) = MatchLine + 2
  /\ StartCol(PreLines[MatchLine + 1]) = -1
  /\ Len(PreLines[MatchLine + 1]) > 0
  /\ StartCol(PreLines[MatchLine + 2]) = AnchorCol
  /\ PostLines[MatchLine + 2] = PreLines[MatchLine + 2]

-----------------------------------------------------------------------------
AdjustedLine == LineOf(buffer, next_line)
OldLine == SplitLines(hist.prev)[AdjustedLine]
NewLine == SplitLines(buffer)[AdjustedLine]
NewCol == StartCol(OldLine) + Delta

(* C6: a realigned line has its whole leading whitespace replaced: by      *)
(* new_col / 8 tabs and new_col % 8 spaces when its own old indentation    *)
(* held a tab, by new_col spaces otherwise; its text then starts at visual *)
(* column new_col = old column + length(replacement) - length(search_text).*)
StylePreserved ==
  hist.last_op = "adjust" =>
    /\ NewLine =
         (IF IndentHasTab(OldLine)
            THEN Rep(TAB, NewCol \div 8) \o Rep(SP, NewCol % 8)
            ELSE Rep(SP, NewCol))
         \o Strip(OldLine)
    /\ StartCol(NewLine) = NewCol

StylePreservedWitness ==
  /\ hist.last_op = "adjust"
  /\ IndentHasTab(OldLine)
  /\ NewCol = 10
  /\ NewLine = <<TAB, SP, SP, X>>

-----------------------------------------------------------------------------
(* The whole run, seen line by line *)

InLines == SplitLines(hist.input)
OutLines == SplitLines(buffer)

RunDone == pc = "DONE"

ParenOrdinalInLine(line, k) == Cardinality({i \in 1..k : line[i] = LP})

\* Index in the line of its n-th '(' (0 if it has fewer).
NthParen(line, n) ==
  LET S == {i \in 1..Len(line) : line[i] = LP /\ ParenOrdinalInLine(line, i) = n}
  IN  IF S = {} THEN 0 ELSE CHOOSE i \in S : TRUE

\* Visual column just right of the n-th '(' of a line.
ColRightOfParen(line, n) == ColAfter(line, NthParen(line, n))

OccursAt(line, text, p) ==
  p + Len(text) <= Len(line) /\ SubSeq(line, p + 1, p + Len(text)) = text

-----------------------------------------------------------------------------
(* C2: column invariance.  After the run, every continuation line that was *)
(* realigned for a match starts in the column just right of that match's   *)
(* anchor '(' on the match line, whatever mix of tabs and spaces precedes  *)
(* the parenthesis.                                                        *)
ColumnInvariance ==
  (PlainArgs /\ RunDone) =>
    \A b \in hist.blocks :
      StartCol(OutLines[b[3]]) = ColRightOfParen(OutLines[b[1]], b[2])

\* The same statement for match lines that hold no tab.
ColumnInvarianceNoTab ==
  (PlainArgs /\ RunDone) =>
    \A b \in hist.blocks :
      TAB \notin Chars(InLines[b[1]]) =>
        StartCol(OutLines[b[3]]) = ColRightOfParen(OutLines[b[1]], b[2])

-----------------------------------------------------------------------------
AlignedOnParenAfterMatch(l, n) ==
  LET line == InLines[l]
      k == NthParen(line, n)
  IN  /\ k # 0
      /\ \E p \in 0..(k - 1) :
           OccursAt(line, search_text, p) /\ p + Len(search_text) < k
      /\ StartCol(InLines[l + 1]) = ColAfter(line, k)

(* C3: the whole run keeps alignment.  For adjacent input lines (L, L+1)   *)
(* where L holds an occurrence of the search text and L+1 starts in the    *)
(* column just right of a '(' of L lying after an occurrence, L+1 still    *)
(* starts just right of that same '(' in the output.                       *)
RunKeepsAlignment ==
  (PlainArgs /\ RunDone) =>
    \A l \in 1..(Len(InLines) - 1) :
      \A n \in 1..Len(InLines[l]) :
        AlignedOnParenAfterMatch(l, n) =>
          StartCol(OutLines[l + 1]) = ColRightOfParen(OutLines[l], n)

-----------------------------------------------------------------------------
RECURSIVE PlainReplace(_, _, _)
PlainReplace(text, s, r) ==
  LET S == {p \in 0..(Len(text) - Len(s)) : OccursAt(text, s, p)}
  IN  IF S = {} THEN text
      ELSE LET p == CHOOSE q \in S : \A q2 \in S : q <= q2
           IN  SubSeq(text, 1, p) \o r
                 \o PlainReplace(SubSeq(text, p + Len(s) + 1, Len(text)), s, r)

StripAll(lines) == [i \in 1..Len(lines) |-> Strip(lines[i])]

WhitespaceFreeArgs ==
  /\ Chars(search_text) \cap {SP, TAB, NL} = {}
  /\ Chars(replacement) \cap {SP, TAB, NL} = {}

(* C4: with a search text and a replacement free of whitespace, the final  *)
(* buffer equals, up to the leading whitespace of each line, one           *)
(* left-to-right pass of plain non-overlapping literal replacement over    *)
(* the input.                                                              *)
EachOccurrenceReplacedOnce ==
  (WhitespaceFreeArgs /\ RunDone) =>
    StripAll(OutLines) =
      StripAll(SplitLines(PlainReplace(hist.input, search_text, replacement)))

\* "fff" with ff -> f: the inserted f and the f after it form a new "ff".
ReplacedOnceWitness ==
  /\ RunDone
  /\ search_text = <<F, F>>
  /\ replacement = <<F>>
  /\ hist.realigned # {}
  /\ \E i \in 1..Len(OutLines) : OccursAt(OutLines[i], search_text, 0)

-----------------------------------------------------------------------------
(* C7 as stated: when a fatal error occurs after some matches have been    *)
(* rewritten, the file holds the edits of the matches processed before it. *)
FileHoldsEditsAfterAbort ==
  (pc = "ABORTED" /\ hist.matches >= 2) => file = hist.pre

(* C7 as amended: a fatal error during the substitution leaves the edits   *)
(* in the buffer only; nothing is rolled back in the buffer and the file   *)
(* is never written, so it still holds the input.                          *)
AbortLeavesFileUnwritten ==
  pc = "ABORTED" =>
    /\ file = hist.input
    /\ buffer = search_context_replace(hist.pre, hist.pm_start, hist.pm_end,
                                       replacement)

AbortAfterEditsWitness ==
  /\ pc = "ABORTED"
  /\ hist.matches = 2
  /\ buffer # hist.input
  /\ hist.pre # hist.input

-----------------------------------------------------------------------------
(* C9 as stated: no replacement is performed on a line already realigned.  *)
NoReplaceOnRealignedLine ==
  (SingleLineArgs /\ pc = "REPLACING") =>
    LineOf(buffer, match_start) \notin hist.realigned

(* C9 as amended: a realigned line that holds an occurrence is replaced    *)
(* later, but no line is realigned once a replacement was performed on it  *)
(* or on a line below it.                                                  *)
NoRealignOnReplacedLine ==
  (SingleLineArgs /\ hist.last_op = "adjust") =>
    \A l \in hist.replaced : l < AdjustedLine

RealignedThenReplacedWitness ==
  /\ SingleLineArgs
  /\ hist.last_op = "adjust"
  /\ Cardinality(hist.replaced) = 2
  /\ \E l \in hist.replaced : l \in hist.realigned

-----------------------------------------------------------------------------
(* C10: with a search text holding no line break, the assertion            *)
(* new_length >= 0 of adjust_alignment never fails.                        *)
AssertionNeverFails == SingleLineArgs => pc # "ABORTED"

ShrinkingRealignWitness ==
  /\ SingleLineArgs
  /\ hist.last_op = "adjust"
  /\ replacement = <<>>
  /\ StartCol(NewLine) = 1

-----------------------------------------------------------------------------
(* C8: with a single-line search text and replacement the substitution     *)
(* loop reaches DONE.                                                      *)
LoopTerminates == SingleLineArgs ~> (pc \in {"DONE", "SAVED"})

SpaceSearchDoneWitness ==
  /\ RunDone
  /\ search_text = <<SP>>
  /\ hist.realigned # {}
  /\ Len(buffer) > 2 * Len(hist.input)

\* The bound on the buffer length never stops a run.
BufferBoundNeverBinds ==
  pc = "REPLACING" =>
    Len(buffer) - Len(search_text) + Len(replacement) <= MaxBufLen

====
